---- MODULE Spec2Model ----
(***************************************************************************)
(* A model of Logger.cpp: the Logger class (constructor, destructor, log   *)
(* and the five severity wrappers), the two sinks it writes, and the       *)
(* driver (SingleThreadLogging, threadFunction, main).                     *)
(*                                                                         *)
(* Three machines share the same log steps:                                *)
(*   Spec      the class under free callers: a constructed Logger with any *)
(*             file name and any minimum level, and threads that call log  *)
(*             and the wrappers with any level and message;                *)
(*   LifeSpec  loggers that are constructed, used and destroyed, one after *)
(*             the other or side by side, on a file that already exists;   *)
(*   MainSpec  the program main() runs.                                    *)
(* Every statement of log that touches shared state is one step, so two    *)
(* threads interleave exactly where the C++ threads can.                   *)
(***************************************************************************)
EXTENDS Integers, Sequences, FiniteSets, TLC

(* ------------------------------ bounds -------------------------------- *)
\* Worker threads main launches (numThreads is 5 in Logger.cpp:127).
NumThreads == 2
\* Iterations of the loop of threadFunction (5 in Logger.cpp:107).
NumMessages == 1
\* Calls the free callers of Spec issue altogether.
MaxCalls == 2
\* The system clock runs over 0..MaxClock seconds.
MaxClock == 1
\* Logger objects that may exist.
NumInstances == 2
\* Threads that call the logger in Spec.
NumCallers == 2

Threads   == 0..NumThreads          \* thread 0 is the main thread
Workers   == 1..NumThreads
Instances == 1..NumInstances
\* The free callers of Spec: the first NumCallers threads.
Callers   == {t \in Threads : t < NumCallers}

(* ----------------------------- LogLevel ------------------------------- *)
DEBUG    == 0
INFO     == 1
WARNING  == 2
ERROR    == 3
CRITICAL == 4
LogLevel == {DEBUG, INFO, WARNING, ERROR, CRITICAL}

\* Messages the free callers of Spec pass.
Msgs == {"", "x", "y"}

\* File names: the driver's default, which can be opened, and one that cannot.
DefaultLogFilename == "myLogs.txt"
BadLogFilename     == "/nodir/app.log"
Paths == {DefaultLogFilename, BadLogFilename}
\* The file system's answer to logfile.open(filename, out | app).
CanOpen(filename) == filename # BadLogFilename

VARIABLES
  alive,         \* [Instances -> {"unborn", "alive", "destroyed"}]
  logfile,       \* [Instances -> [filename, is_open]]   Logger::logfile
  minimumLevel,  \* [Instances -> LogLevel]              Logger::minimumLevel
  destroyedBefore, \* history: [Instances -> the loggers already destroyed when
                 \*          this one was constructed]
  logMutex,      \* [Instances -> SUBSET Threads]        owners of Logger::logMutex
  cout,          \* standard output: the chunks written, one per operator<<
  cerr,          \* standard error, likewise
  disk,          \* [Paths -> chunks]: the content of each file
  filebuf,       \* [Instances -> chunks]: what Logger::logfile has buffered
  clock,         \* the last value read from system_clock
  tmbuf,         \* the static struct tm std::localtime fills and returns
  th,            \* [Threads -> frame of the log call the thread is in]
  calls,         \* history: [Threads -> the log calls the thread has made]
  lockOrder,     \* history: <<thread, call number>> in order of lock acquisition
  logFilename,   \* main's logFilename
  mainpc,        \* main's position
  mi,            \* main's loop counter
  wk             \* [Workers -> state of threadFunction]

vars == <<alive, logfile, minimumLevel, destroyedBefore, logMutex, cout, cerr, disk, filebuf, clock,
          tmbuf, th, calls, lockOrder, logFilename, mainpc, mi, wk>>

loggerVars == <<alive, logfile, minimumLevel, destroyedBefore>>
sinkVars   == <<cout, cerr, disk, filebuf>>
driverVars == <<logFilename, mainpc, mi, wk>>

(* ------------------------- pure helper functions ---------------------- *)
\* std::to_string on the small numbers the model uses.
to_string(n) ==
  CASE n = 0 -> "0" [] n = 1 -> "1" [] n = 2 -> "2" [] n = 3 -> "3"
    [] n = 4 -> "4" [] n = 5 -> "5" [] n = 6 -> "6" [] n = 7 -> "7"
    [] n = 8 -> "8" [] n = 9 -> "9"

\* getCurrentTime: now, in seconds, rendered by put_time as "%Y-%m-%d %X".
getCurrentTime(now) == "2024-01-01 00:00:0" \o to_string(now)

\* Mutant of levelToString: the case of WARNING is missing.
levelToStringNoWarning(level) ==
  CASE level = DEBUG    -> "DEBUG"
    [] level = INFO     -> "INFO"
    [] level = ERROR    -> "ERROR"
    [] level = CRITICAL -> "CRITICAL"
    [] OTHER            -> "UNKNOWN"

\* lines 45-54
levelToString(level) ==
  CASE level = DEBUG    -> "DEBUG"
    [] level = INFO     -> "INFO"
    [] level = WARNING  -> "WARNING"
    [] level = ERROR    -> "ERROR"
    [] level = CRITICAL -> "CRITICAL"
    [] OTHER            -> "UNKNOWN"

\* The string log builds at line 75.
logEntryOf(now, level, message) ==
  "[" \o getCurrentTime(now) \o "]" \o "[" \o levelToString(level) \o "]" \o message

endl == "\n"

(* ----------------------------- thread frames -------------------------- *)
NoFrame == [pc |-> "idle", obj |-> 0, level |-> DEBUG, message |-> "", logEntry |-> ""]

\* Program points of log at which the thread is inside the lock_guard's scope.
InGuard == {"localtime", "format", "cout_entry", "cout_endl", "is_open", "file_entry",
            "file_endl", "unlock"}

Idle(t) == th[t].pc = "idle"

(* -------------------------- Logger::Logger ---------------------------- *)
\* The diagnostic of line 60.
FailedToOpen(filename) == <<"Failed to open the log file : " \o filename, endl>>

\* Mutant of Construct: the file is opened with std::ios::out alone, which
\* truncates it.
ConstructTruncates(i, filename, minLevel) ==
  /\ alive[i] = "unborn"
  /\ alive' = [alive EXCEPT ![i] = "alive"]
  /\ minimumLevel' = [minimumLevel EXCEPT ![i] = minLevel]
  /\ logfile' = [logfile EXCEPT ![i] = [filename |-> filename,
                                        is_open  |-> CanOpen(filename)]]
  /\ cerr' = IF CanOpen(filename) THEN cerr ELSE cerr \o FailedToOpen(filename)
  /\ filebuf' = [filebuf EXCEPT ![i] = <<>>]
  /\ destroyedBefore' = [destroyedBefore EXCEPT ![i] =
                           {j \in Instances : alive[j] = "destroyed"}]
  /\ disk' = IF CanOpen(filename) THEN [disk EXCEPT ![filename] = <<>>] ELSE disk
  /\ UNCHANGED <<logMutex, cout>>

\* Mutant of Construct: the diagnostic goes to std::cout.
ConstructDiagToCout(i, filename, minLevel) ==
  /\ alive[i] = "unborn"
  /\ alive' = [alive EXCEPT ![i] = "alive"]
  /\ minimumLevel' = [minimumLevel EXCEPT ![i] = minLevel]
  /\ logfile' = [logfile EXCEPT ![i] = [filename |-> filename,
                                        is_open  |-> CanOpen(filename)]]
  /\ cout' = IF CanOpen(filename) THEN cout ELSE cout \o FailedToOpen(filename)
  /\ filebuf' = [filebuf EXCEPT ![i] = <<>>]
  /\ destroyedBefore' = [destroyedBefore EXCEPT ![i] =
                           {j \in Instances : alive[j] = "destroyed"}]
  /\ UNCHANGED <<logMutex, cerr, disk>>

\* lines 58-61: the members are initialised and the file is opened for appending.
Construct(i, filename, minLevel) ==
  /\ alive[i] = "unborn"
  /\ alive' = [alive EXCEPT ![i] = "alive"]
  /\ minimumLevel' = [minimumLevel EXCEPT ![i] = minLevel]
  /\ logfile' = [logfile EXCEPT ![i] = [filename |-> filename,
                                        is_open  |-> CanOpen(filename)]]
  /\ cerr' = IF CanOpen(filename) THEN cerr ELSE cerr \o FailedToOpen(filename)
  /\ filebuf' = [filebuf EXCEPT ![i] = <<>>]
  /\ destroyedBefore' = [destroyedBefore EXCEPT ![i] =
                           {j \in Instances : alive[j] = "destroyed"}]
  /\ UNCHANGED <<logMutex, cout, disk>>

(* -------------------------- Logger::~Logger --------------------------- *)
\* lines 64-66: close writes out what the stream still buffers.
Destroy(i) ==
  /\ alive[i] = "alive"
  /\ alive' = [alive EXCEPT ![i] = "destroyed"]
  /\ logfile' = [logfile EXCEPT ![i].is_open = FALSE]
  /\ disk' = IF logfile[i].is_open
               THEN [disk EXCEPT ![logfile[i].filename] = @ \o filebuf[i]]
               ELSE disk
  /\ filebuf' = [filebuf EXCEPT ![i] = <<>>]
  /\ UNCHANGED <<minimumLevel, destroyedBefore, logMutex, cout, cerr>>

(* ---------------------------- Logger::log ----------------------------- *)
\* Thread t enters log on instance i with its arguments; via names the member
\* function the caller called (history only).
Call(t, i, level, message, via) ==
  /\ Idle(t)
  /\ th' = [th EXCEPT ![t] = [pc |-> "filter", obj |-> i, level |-> level,
                              message |-> message, logEntry |-> ""]]
  /\ calls' = [calls EXCEPT ![t] = Append(@, [obj |-> i, via |-> via, level |-> level,
                    message |-> message, result |-> "pending", ts |-> 0,
                    contended |-> FALSE])]

\* line 69: a direct call of log.
log(t, i, level, message) == Call(t, i, level, message, "log")

\* How thread t's current call ends, for the history.
Finish(t, result) ==
  [calls EXCEPT ![t][Len(calls[t])].result = result,
                ![t][Len(calls[t])].contended = (logMutex[th[t].obj] # {})]

\* Mutant of Filter: the lock_guard is declared before the filter's test, so a
\* filtered call takes the mutex too.
FilterUnderGuard(t) ==
  /\ th[t].pc = "filter"
  /\ logMutex[th[t].obj] = {}
  /\ IF th[t].level < minimumLevel[th[t].obj]
       THEN /\ th' = [th EXCEPT ![t] = NoFrame]
            /\ calls' = Finish(t, "filtered")
            /\ UNCHANGED <<logMutex, lockOrder>>
       ELSE /\ th' = [th EXCEPT ![t].pc = "localtime"]
            /\ logMutex' = [logMutex EXCEPT ![th[t].obj] = {t}]
            /\ lockOrder' = Append(lockOrder, <<t, Len(calls[t])>>)
            /\ UNCHANGED calls
  /\ UNCHANGED <<loggerVars, sinkVars, clock, tmbuf, driverVars>>

\* Mutant of Filter: an accepted call raises the threshold to its own severity.
FilterRaises(t) ==
  /\ th[t].pc = "filter"
  /\ IF th[t].level < minimumLevel[th[t].obj]
       THEN /\ th' = [th EXCEPT ![t] = NoFrame]
            /\ calls' = Finish(t, "filtered")
            /\ UNCHANGED minimumLevel
       ELSE /\ th' = [th EXCEPT ![t].pc = "lock"]
            /\ minimumLevel' = [minimumLevel EXCEPT ![th[t].obj] = th[t].level]
            /\ UNCHANGED calls
  /\ UNCHANGED <<alive, logfile, destroyedBefore, logMutex, sinkVars, clock, tmbuf,
                 lockOrder, driverVars>>

\* Mutant of Filter: the comparison is <= instead of <.
FilterOffByOne(t) ==
  /\ th[t].pc = "filter"
  /\ IF th[t].level <= minimumLevel[th[t].obj]
       THEN /\ th' = [th EXCEPT ![t] = NoFrame]
            /\ calls' = Finish(t, "filtered")
       ELSE /\ th' = [th EXCEPT ![t].pc = "lock"]
            /\ UNCHANGED calls
  /\ UNCHANGED <<loggerVars, logMutex, sinkVars, clock, tmbuf, lockOrder, driverVars>>

\* line 70: if(level < minimumLevel) return;
Filter(t) ==
  /\ th[t].pc = "filter"
  /\ IF th[t].level < minimumLevel[th[t].obj]
       THEN /\ th' = [th EXCEPT ![t] = NoFrame]
            /\ calls' = Finish(t, "filtered")
       ELSE /\ th' = [th EXCEPT ![t].pc = "lock"]
            /\ UNCHANGED calls
  /\ UNCHANGED <<loggerVars, logMutex, sinkVars, clock, tmbuf, lockOrder, driverVars>>

\* Mutant of Lock: the guard is an unnamed temporary, std::lock_guard<std::mutex>(logMutex);
\* it waits for the mutex and releases it at once.
LockTemporary(t) ==
  /\ th[t].pc = "lock"
  /\ logMutex[th[t].obj] = {}
  /\ th' = [th EXCEPT ![t].pc = "localtime"]
  /\ lockOrder' = Append(lockOrder, <<t, Len(calls[t])>>)
  /\ UNCHANGED <<loggerVars, logMutex, sinkVars, clock, tmbuf, calls, driverVars>>

\* Mutant of Lock: a std::unique_lock constructed with std::defer_lock, which
\* never locks the mutex.
LockDeferred(t) ==
  /\ th[t].pc = "lock"
  /\ th' = [th EXCEPT ![t].pc = "localtime"]
  /\ lockOrder' = Append(lockOrder, <<t, Len(calls[t])>>)
  /\ UNCHANGED <<loggerVars, logMutex, sinkVars, clock, tmbuf, calls, driverVars>>

\* Mutant of Lock: logMutex is a static member, one mutex for all loggers.
LockProcessWide(t) ==
  /\ th[t].pc = "lock"
  /\ \A i \in Instances : logMutex[i] = {}
  /\ logMutex' = [logMutex EXCEPT ![th[t].obj] = {t}]
  /\ th' = [th EXCEPT ![t].pc = "localtime"]
  /\ lockOrder' = Append(lockOrder, <<t, Len(calls[t])>>)
  /\ UNCHANGED <<loggerVars, sinkVars, clock, tmbuf, calls, driverVars>>

\* Mutant of Lock: logMutex.try_lock() is called once and its result ignored.
LockTryOnce(t) ==
  /\ th[t].pc = "lock"
  /\ logMutex' = IF logMutex[th[t].obj] = {}
                   THEN [logMutex EXCEPT ![th[t].obj] = {t}]
                   ELSE logMutex
  /\ th' = [th EXCEPT ![t].pc = "localtime"]
  /\ lockOrder' = Append(lockOrder, <<t, Len(calls[t])>>)
  /\ UNCHANGED <<loggerVars, sinkVars, clock, tmbuf, calls, driverVars>>

\* Mutant of Lock: no guard at all.
LockAbsent(t) ==
  /\ th[t].pc = "lock"
  /\ logMutex' = [logMutex EXCEPT ![th[t].obj] = @ \cup {t}]
  /\ th' = [th EXCEPT ![t].pc = "localtime"]
  /\ lockOrder' = Append(lockOrder, <<t, Len(calls[t])>>)
  /\ UNCHANGED <<loggerVars, sinkVars, clock, tmbuf, calls, driverVars>>

\* line 73: std::lock_guard<std::mutex> lock(logMutex);
Lock(t) ==
  /\ th[t].pc = "lock"
  /\ logMutex[th[t].obj] = {}
  /\ logMutex' = [logMutex EXCEPT ![th[t].obj] = {t}]
  /\ th' = [th EXCEPT ![t].pc = "localtime"]
  /\ lockOrder' = Append(lockOrder, <<t, Len(calls[t])>>)
  /\ UNCHANGED <<loggerVars, sinkVars, clock, tmbuf, calls, driverVars>>

\* lines 36-40, called from line 75: getCurrentTime reads the clock (it never
\* runs backwards) and std::localtime stores the broken-down time in its static
\* buffer, which every thread of the process shares.
Localtime(t) ==
  /\ th[t].pc = "localtime"
  /\ \E now \in clock..MaxClock :
       /\ clock' = now
       /\ tmbuf' = now
       /\ calls' = [calls EXCEPT ![t][Len(calls[t])].ts = now]
  /\ th' = [th EXCEPT ![t].pc = "format"]
  /\ UNCHANGED <<loggerVars, logMutex, sinkVars, lockOrder, driverVars>>

\* lines 40-41 and 75: put_time renders what the static buffer holds now, and
\* log builds the entry around it.
Format(t) ==
  /\ th[t].pc = "format"
  /\ th' = [th EXCEPT ![t].pc = "cout_entry",
                      ![t].logEntry = logEntryOf(tmbuf, th[t].level, th[t].message)]
  /\ UNCHANGED <<loggerVars, logMutex, sinkVars, clock, tmbuf, calls, lockOrder, driverVars>>

\* Mutant of CoutEntry: the console line is written only when the file is open.
CoutEntryIfOpen(t) ==
  /\ th[t].pc = "cout_entry"
  /\ cout' = IF logfile[th[t].obj].is_open THEN Append(cout, th[t].logEntry) ELSE cout
  /\ th' = [th EXCEPT ![t].pc = "cout_endl"]
  /\ UNCHANGED <<loggerVars, logMutex, cerr, disk, filebuf, clock, tmbuf, calls, lockOrder, driverVars>>

\* line 78: std::cout << logEntry
CoutEntry(t) ==
  /\ th[t].pc = "cout_entry"
  /\ cout' = Append(cout, th[t].logEntry)
  /\ th' = [th EXCEPT ![t].pc = "cout_endl"]
  /\ UNCHANGED <<loggerVars, logMutex, cerr, disk, filebuf, clock, tmbuf, calls, lockOrder, driverVars>>

\* Mutant of CoutEndl: the guard's scope ends after the console write.
CoutEndlEndsScope(t) ==
  /\ th[t].pc = "cout_endl"
  /\ cout' = Append(cout, endl)
  /\ th' = [th EXCEPT ![t].pc = "is_open"]
  /\ logMutex' = [logMutex EXCEPT ![th[t].obj] = @ \ {t}]
  /\ UNCHANGED <<loggerVars, cerr, disk, filebuf, clock, tmbuf, calls, lockOrder, driverVars>>

\* line 78: << std::endl
CoutEndl(t) ==
  /\ th[t].pc = "cout_endl"
  /\ cout' = Append(cout, endl)
  /\ th' = [th EXCEPT ![t].pc = "is_open"]
  /\ UNCHANGED <<loggerVars, logMutex, cerr, disk, filebuf, clock, tmbuf, calls, lockOrder, driverVars>>

\* Mutant of IsOpen: the test is inverted, if(!logfile.is_open()).
IsOpenNegated(t) ==
  /\ th[t].pc = "is_open"
  /\ th' = [th EXCEPT ![t].pc =
              IF ~logfile[th[t].obj].is_open THEN "file_entry" ELSE "unlock"]
  /\ UNCHANGED <<loggerVars, logMutex, sinkVars, clock, tmbuf, calls, lockOrder, driverVars>>

\* Mutant of IsOpen: the mutex is locked and unlocked by hand, and the branch
\* for a closed file returns without unlocking it.
IsOpenReturnsEarly(t) ==
  /\ th[t].pc = "is_open"
  /\ IF logfile[th[t].obj].is_open
       THEN /\ th' = [th EXCEPT ![t].pc = "file_entry"]
            /\ UNCHANGED calls
       ELSE /\ th' = [th EXCEPT ![t] = NoFrame]
            /\ calls' = [calls EXCEPT ![t][Len(calls[t])].result = "logged"]
  /\ UNCHANGED <<loggerVars, logMutex, sinkVars, clock, tmbuf, lockOrder, driverVars>>

\* line 81: if(logfile.is_open())
IsOpen(t) ==
  /\ th[t].pc = "is_open"
  /\ th' = [th EXCEPT ![t].pc =
              IF logfile[th[t].obj].is_open THEN "file_entry" ELSE "unlock"]
  /\ UNCHANGED <<loggerVars, logMutex, sinkVars, clock, tmbuf, calls, lockOrder, driverVars>>

\* line 82: logfile << logEntry.  The stream keeps the entry in its buffer, or,
\* when the entry does not fit, writes it through to the file.
FileEntry(t) ==
  /\ th[t].pc = "file_entry"
  /\ \/ /\ filebuf' = [filebuf EXCEPT ![th[t].obj] = Append(@, th[t].logEntry)]
        /\ UNCHANGED disk
     \/ /\ disk' = [disk EXCEPT ![logfile[th[t].obj].filename] =
                                  Append(@ \o filebuf[th[t].obj], th[t].logEntry)]
        /\ filebuf' = [filebuf EXCEPT ![th[t].obj] = <<>>]
  /\ th' = [th EXCEPT ![t].pc = "file_endl"]
  /\ UNCHANGED <<loggerVars, logMutex, cout, cerr, clock, tmbuf, calls, lockOrder, driverVars>>

\* Mutant of FileEndl: the file is closed after each line.
FileEndlCloses(t) ==
  /\ th[t].pc = "file_endl"
  /\ disk' = [disk EXCEPT ![logfile[th[t].obj].filename] =
                               Append(@ \o filebuf[th[t].obj], endl)]
  /\ filebuf' = [filebuf EXCEPT ![th[t].obj] = <<>>]
  /\ th' = [th EXCEPT ![t].pc = "unlock"]
  /\ logfile' = [logfile EXCEPT ![th[t].obj].is_open = FALSE]
  /\ UNCHANGED <<alive, minimumLevel, destroyedBefore, logMutex, cout, cerr, clock, tmbuf, calls, lockOrder, driverVars>>

\* line 82: << std::endl ends the line and flushes the buffer to the file.
FileEndl(t) ==
  /\ th[t].pc = "file_endl"
  /\ disk' = [disk EXCEPT ![logfile[th[t].obj].filename] =
                               Append(@ \o filebuf[th[t].obj], endl)]
  /\ filebuf' = [filebuf EXCEPT ![th[t].obj] = <<>>]
  /\ th' = [th EXCEPT ![t].pc = "unlock"]
  /\ UNCHANGED <<loggerVars, logMutex, cout, cerr, clock, tmbuf, calls, lockOrder, driverVars>>

\* Mutant of Unlock: log returns with the mutex still locked.
UnlockKeepsMutex(t) ==
  /\ th[t].pc = "unlock"
  /\ th' = [th EXCEPT ![t] = NoFrame]
  /\ calls' = [calls EXCEPT ![t][Len(calls[t])].result = "logged"]
  /\ UNCHANGED <<loggerVars, logMutex, sinkVars, clock, tmbuf, lockOrder, driverVars>>

\* line 84: the lock_guard leaves scope; line 85: log returns.
Unlock(t) ==
  /\ th[t].pc = "unlock"
  /\ logMutex' = [logMutex EXCEPT ![th[t].obj] = @ \ {t}]
  /\ th' = [th EXCEPT ![t] = NoFrame]
  /\ calls' = [calls EXCEPT ![t][Len(calls[t])].result = "logged"]
  /\ UNCHANGED <<loggerVars, sinkVars, clock, tmbuf, lockOrder, driverVars>>

\* One step of the log call thread t is in.
LogStep(t) ==
  \/ Filter(t)
  \/ Lock(t)
  \/ Localtime(t)
  \/ Format(t)
  \/ CoutEntry(t)
  \/ CoutEndl(t)
  \/ IsOpen(t)
  \/ FileEntry(t)
  \/ FileEndl(t)
  \/ Unlock(t)

(* ------------------------ the severity wrappers ----------------------- *)
\* Mutant of warning: it forwards the severity of error.
warningAsError(t, i, message) == Call(t, i, ERROR, message, "warning")

debug(t, i, message)    == Call(t, i, DEBUG, message, "debug")
info(t, i, message)     == Call(t, i, INFO, message, "info")
warning(t, i, message)  == Call(t, i, WARNING, message, "warning")
error(t, i, message)    == Call(t, i, ERROR, message, "error")
critical(t, i, message) == Call(t, i, CRITICAL, message, "critical")

(* ------------------- Spec: the class under free callers --------------- *)
CallsMade == LET RECURSIVE sum(_)
                 sum(S) == IF S = {} THEN 0
                           ELSE LET t == CHOOSE u \in S : TRUE
                                IN Len(calls[t]) + sum(S \ {t})
             IN sum(Threads)

CallFrame == UNCHANGED <<loggerVars, logMutex, sinkVars, clock, tmbuf, lockOrder, driverVars>>

\* A caller calls log directly.
CallLog(t) ==
  /\ CallsMade < MaxCalls
  /\ \E i \in Instances, level \in LogLevel, message \in Msgs :
       /\ alive[i] = "alive"
       /\ log(t, i, level, message)
  /\ CallFrame

\* A caller calls one of the wrappers.
CallWrapper(t) ==
  /\ CallsMade < MaxCalls
  /\ \E i \in Instances, message \in Msgs :
       /\ alive[i] = "alive"
       /\ \/ debug(t, i, message)
          \/ info(t, i, message)
          \/ warning(t, i, message)
          \/ error(t, i, message)
          \/ critical(t, i, message)
  /\ CallFrame

\* The owner destroys a logger once nobody is using it.
OwnerDestroy ==
  /\ \E i \in Instances :
       /\ \A t \in Threads : th[t].obj # i
       /\ Destroy(i)
  /\ UNCHANGED <<clock, tmbuf, th, calls, lockOrder, driverVars>>

Init ==
  /\ \E filename \in Paths, minLevel \in LogLevel :
       /\ alive = [i \in Instances |-> IF i = 1 THEN "alive" ELSE "unborn"]
       /\ logfile = [i \in Instances |->
                       IF i = 1 THEN [filename |-> filename, is_open |-> CanOpen(filename)]
                                ELSE [filename |-> "", is_open |-> FALSE]]
       /\ minimumLevel = [i \in Instances |-> IF i = 1 THEN minLevel ELSE INFO]
       /\ cerr = IF CanOpen(filename) THEN <<>> ELSE FailedToOpen(filename)
  /\ destroyedBefore = [i \in Instances |-> {}]
  /\ logMutex = [i \in Instances |-> {}]
  /\ cout = <<>>
  /\ disk = [p \in Paths |-> <<>>]
  /\ filebuf = [i \in Instances |-> <<>>]
  /\ clock = 0
  /\ tmbuf = 0
  /\ th = [t \in Threads |-> NoFrame]
  /\ calls = [t \in Threads |-> <<>>]
  /\ lockOrder = <<>>
  /\ logFilename = ""
  /\ mainpc = "none"
  /\ mi = 0
  /\ wk = [w \in Workers |-> [started |-> FALSE, i |-> 0, at |-> "info"]]

Next ==
  \/ \E t \in Callers : CallLog(t)
  \/ \E t \in Callers : CallWrapper(t)
  \/ \E t \in Threads : LogStep(t)
  \/ OwnerDestroy

Spec == Init /\ [][Next]_vars

(* ------------------ LifeSpec: loggers that come and go ---------------- *)
\* What the log file holds when the program starts: the line of an earlier run.
Previous == <<"[2023-12-31 23:59:59][INFO]previous run", endl>>

\* The thresholds, severities and messages the owners and callers of LifeSpec use.
LifeLevels == {DEBUG, WARNING}
LifeMsgs   == {"x", "y"}

\* An owner constructs a logger.  The objects are numbered in the order of
\* their construction.
OwnerConstruct ==
  /\ \E i \in Instances, filename \in Paths, minLevel \in LifeLevels :
       /\ \A j \in Instances : j < i => alive[j] # "unborn"
       /\ Construct(i, filename, minLevel)
  /\ UNCHANGED <<clock, tmbuf, th, calls, lockOrder, driverVars>>

\* A caller calls log on a logger that is alive.
LifeCall(t) ==
  /\ CallsMade < MaxCalls
  /\ \E i \in Instances, level \in LifeLevels, message \in LifeMsgs :
       /\ alive[i] = "alive"
       /\ log(t, i, level, message)
  /\ CallFrame

LifeInit ==
  /\ alive = [i \in Instances |-> "unborn"]
  /\ logfile = [i \in Instances |-> [filename |-> "", is_open |-> FALSE]]
  /\ minimumLevel = [i \in Instances |-> INFO]
  /\ destroyedBefore = [i \in Instances |-> {}]
  /\ logMutex = [i \in Instances |-> {}]
  /\ cout = <<>>
  /\ cerr = <<>>
  /\ disk = [p \in Paths |-> IF CanOpen(p) THEN Previous ELSE <<>>]
  /\ filebuf = [i \in Instances |-> <<>>]
  /\ clock = 0
  /\ tmbuf = 0
  /\ th = [t \in Threads |-> NoFrame]
  /\ calls = [t \in Threads |-> <<>>]
  /\ lockOrder = <<>>
  /\ logFilename = ""
  /\ mainpc = "none"
  /\ mi = 0
  /\ wk = [w \in Workers |-> [started |-> FALSE, i |-> 0, at |-> "info"]]

LifeNext ==
  \/ OwnerConstruct
  \/ \E t \in Callers : LifeCall(t)
  \/ \E t \in Threads : LogStep(t)
  \/ OwnerDestroy

LifeSpec == LifeInit /\ [][LifeNext]_vars

(* --------------------------- the driver ------------------------------- *)
\* The logger main constructs at line 122.
TheLogger == 1

\* Main's frame is changed by the call; the rest of what a call leaves alone.
DriverCallFrame == UNCHANGED <<loggerVars, logMutex, sinkVars, clock, tmbuf, lockOrder, logFilename>>

\* line 122: Logger logger(logFilename, LogLevel::DEBUG);
MainConstruct ==
  /\ mainpc = "construct"
  /\ Construct(TheLogger, logFilename, DEBUG)
  /\ mainpc' = "single"
  /\ UNCHANGED <<clock, tmbuf, th, calls, lockOrder, logFilename, mi, wk>>

\* lines 95-103: the mi-th statement of SingleThreadLogging.
SingleThreadLogging ==
  /\ mainpc = "single"
  /\ \/ mi = 0 /\ info(0, TheLogger, "----- IN SINGLE THREAD LOGIC ------")
     \/ mi = 1 /\ debug(0, TheLogger, "This is debug message")
     \/ mi = 2 /\ info(0, TheLogger,
                       "Application started and logfile name is : " \o logFilename)
     \/ mi = 3 /\ warning(0, TheLogger, "Low memory condition detected")
     \/ mi = 4 /\ error(0, TheLogger, "Failed some where")
     \/ mi = 5 /\ critical(0, TheLogger, "Crash detected")
     \/ mi = 6 /\ info(0, TheLogger, "----- END SINGLE THREAD LOGIC ------")
  /\ mi' = IF mi = 6 THEN 0 ELSE mi + 1
  /\ mainpc' = IF mi = 6 THEN "multi" ELSE "single"
  /\ UNCHANGED wk
  /\ DriverCallFrame

\* line 131
MainMultiInfo ==
  /\ mainpc = "multi"
  /\ info(0, TheLogger, "----- IN MULTI THREAD LOGIC -----")
  /\ mainpc' = "spawn"
  /\ UNCHANGED <<mi, wk>>
  /\ DriverCallFrame

\* lines 132-134: threads.emplace_back(threadFunction, std::ref(logger), i+1)
MainSpawn ==
  /\ mainpc = "spawn"
  /\ Idle(0)
  /\ IF mi < NumThreads
       THEN /\ wk' = [wk EXCEPT ![mi + 1].started = TRUE]
            /\ mi' = mi + 1
            /\ UNCHANGED mainpc
       ELSE /\ mainpc' = "join"
            /\ mi' = 0
            /\ UNCHANGED wk
  /\ UNCHANGED <<loggerVars, logMutex, sinkVars, clock, tmbuf, th, calls, lockOrder, logFilename>>

\* threadFunction has returned in worker w.
Finished(w) == wk[w].at = "done"

\* Mutant of MainJoin: the loop stops one thread short and the last thread is
\* never joined.
MainJoinSkipsLast ==
  /\ mainpc = "join"
  /\ IF mi < NumThreads - 1
       THEN /\ Finished(mi + 1)
            /\ mi' = mi + 1
            /\ UNCHANGED mainpc
       ELSE /\ mainpc' = "final"
            /\ mi' = 0
  /\ UNCHANGED <<loggerVars, logMutex, sinkVars, clock, tmbuf, th, calls, lockOrder, logFilename, wk>>

\* Mutant of MainJoin: the loop does not wait for the thread (it detaches it).
MainJoinNoWait ==
  /\ mainpc = "join"
  /\ IF mi < NumThreads
       THEN /\ mi' = mi + 1
            /\ UNCHANGED mainpc
       ELSE /\ mainpc' = "final"
            /\ mi' = 0
  /\ UNCHANGED <<loggerVars, logMutex, sinkVars, clock, tmbuf, th, calls, lockOrder, logFilename, wk>>

\* lines 137-139: thread.join() returns once the thread has finished.
MainJoin ==
  /\ mainpc = "join"
  /\ IF mi < NumThreads
       THEN /\ Finished(mi + 1)
            /\ mi' = mi + 1
            /\ UNCHANGED mainpc
       ELSE /\ mainpc' = "final"
            /\ mi' = 0
  /\ UNCHANGED <<loggerVars, logMutex, sinkVars, clock, tmbuf, th, calls, lockOrder, logFilename, wk>>

\* line 141
MainFinalInfo ==
  /\ mainpc = "final"
  /\ info(0, TheLogger, "------ ALL THREADS ARE COMPLETED ------")
  /\ mainpc' = "return"
  /\ UNCHANGED <<mi, wk>>
  /\ DriverCallFrame

\* line 143: return 0 runs ~Logger on logger.
MainReturn ==
  /\ mainpc = "return"
  /\ Idle(0)
  /\ Destroy(TheLogger)
  /\ mainpc' = "exited"
  /\ UNCHANGED <<clock, tmbuf, th, calls, lockOrder, logFilename, mi, wk>>

\* line 110: logger.info(msg) with the msg of line 108
WorkerInfo(w) ==
  /\ wk[w].started
  /\ wk[w].at = "info"
  /\ info(w, TheLogger,
          "Thread : " \o to_string(w) \o " - Message " \o to_string(wk[w].i))
  /\ wk' = [wk EXCEPT ![w].at = "debug"]
  /\ UNCHANGED <<mainpc, mi>>
  /\ DriverCallFrame

\* line 111
WorkerDebug(w) ==
  /\ wk[w].at = "debug"
  /\ debug(w, TheLogger, "In threading debug - The thread is :" \o to_string(w))
  /\ wk' = [wk EXCEPT ![w].at = "sleep"]
  /\ UNCHANGED <<mainpc, mi>>
  /\ DriverCallFrame

\* line 112 and the loop's i++ and test of line 107
WorkerSleep(w) ==
  /\ wk[w].at = "sleep"
  /\ Idle(w)
  /\ wk' = [wk EXCEPT ![w].i = @ + 1,
                      ![w].at = IF wk[w].i + 1 < NumMessages THEN "info" ELSE "done"]
  /\ UNCHANGED <<loggerVars, logMutex, sinkVars, clock, tmbuf, th, calls, lockOrder,
                 logFilename, mainpc, mi>>

threadFunction(w) ==
  \/ WorkerInfo(w)
  \/ WorkerDebug(w)
  \/ WorkerSleep(w)

\* lines 116-143
main ==
  \/ MainConstruct
  \/ SingleThreadLogging
  \/ MainMultiInfo
  \/ MainSpawn
  \/ MainJoin
  \/ MainFinalInfo
  \/ MainReturn

\* main starts: logFilename is the default or argv[1] (lines 118-120).
MainInit ==
  /\ logFilename \in Paths
  /\ alive = [i \in Instances |-> "unborn"]
  /\ logfile = [i \in Instances |-> [filename |-> "", is_open |-> FALSE]]
  /\ minimumLevel = [i \in Instances |-> INFO]
  /\ destroyedBefore = [i \in Instances |-> {}]
  /\ logMutex = [i \in Instances |-> {}]
  /\ cout = <<>>
  /\ cerr = <<>>
  /\ disk = [p \in Paths |-> <<>>]
  /\ filebuf = [i \in Instances |-> <<>>]
  /\ clock = 0
  /\ tmbuf = 0
  /\ th = [t \in Threads |-> NoFrame]
  /\ calls = [t \in Threads |-> <<>>]
  /\ lockOrder = <<>>
  /\ mainpc = "construct"
  /\ mi = 0
  /\ wk = [w \in Workers |-> [started |-> FALSE, i |-> 0, at |-> "info"]]

MainNext ==
  \/ main
  \/ \E w \in Workers : threadFunction(w)
  \/ \E t \in Threads : LogStep(t)

MainSpec == MainInit /\ [][MainNext]_vars

\* The scheduler runs every thread that can take a step.
FairMainSpec ==
  /\ MainSpec
  /\ WF_vars(main \/ LogStep(0))
  /\ \A w \in Workers : WF_vars(threadFunction(w) \/ LogStep(w))

(* ===================== what the sinks hold, as text =================== *)
\* The chunks of a sink split at the line terminators: the complete lines, and
\* the text after the last terminator.
RECURSIVE Split(_)
Split(s) ==
  IF s = <<>> THEN [lines |-> <<>>, rest |-> ""]
  ELSE LET p == Split(SubSeq(s, 1, Len(s) - 1))
           c == s[Len(s)]
       IN IF c = endl THEN [lines |-> Append(p.lines, p.rest), rest |-> ""]
                      ELSE [lines |-> p.lines, rest |-> p.rest \o c]

CoutLines == Split(cout).lines
FileLines(filename) == Split(disk[filename]).lines

\* The names of the severities, in rank order, as the line format prints them.
SeverityName == <<"DEBUG", "INFO", "WARNING", "ERROR", "CRITICAL">>

\* The line format: [<timestamp>][<LEVEL>]<message>.
LineFormat(ts, rank, message) ==
  "[" \o getCurrentTime(ts) \o "][" \o SeverityName[rank + 1] \o "]" \o message

\* The calls made so far, as <<thread, number>>, and the record of one.
Made == UNION {{<<t, n>> : n \in 1..Len(calls[t])} : t \in Threads}
CallOf(id) == calls[id[1]][id[2]]
\* The line a call writes when it is accepted.
LineOf(id) == LineFormat(CallOf(id).ts, CallOf(id).level, CallOf(id).message)
\* A call passes the filter of its logger.
Accepted(id) == CallOf(id).level >= minimumLevel[CallOf(id).obj]

Count(seq, v) == Cardinality({k \in DOMAIN seq : seq[k] = v})
Quiescent == \A t \in Threads : Idle(t)
\* The file of instance i was opened by its constructor.
FileOpen(i) == alive[i] # "unborn" /\ CanOpen(logfile[i].filename)
Holder(i) == {t \in Threads : th[t].obj = i /\ th[t].pc \in InGuard}

(* ============================== claims ================================ *)

\* C1: mutual exclusion of the write path: on one Logger, at most one thread
\* is between acquiring and releasing the guard (formatting the timestamp,
\* building the line, writing the console or writing the file).
MutualExclusion ==
  \A i \in Instances : Cardinality(Holder(i)) <= 1

\* C1 witness: a thread is writing inside the guard while another waits for it.
MutualExclusionWitness ==
  \E t \in Threads, u \in Threads :
     /\ t # u
     /\ th[t].pc \in {"cout_endl", "file_entry"}
     /\ th[u].pc = "lock"
     /\ th[u].obj = th[t].obj

\* The lines of the workers' calls among the complete lines of a sink.
WorkerLines(lines) ==
  SelectSeq(lines, LAMBDA l : \E id \in Made : id[1] \in Workers /\ LineOf(id) = l)

\* A sink holds whole lines of calls only, each as often as calls wrote it.
WholeLinesOnly(sink) ==
  /\ Split(sink).rest = ""
  /\ \A k \in DOMAIN Split(sink).lines : \E id \in Made : LineOf(id) = Split(sink).lines[k]
  /\ \A id \in Made :
        Count(Split(sink).lines, LineOf(id))
          = Cardinality({j \in Made : LineOf(j) = LineOf(id)})

\* C2: atomicity under concurrency: once the N workers, each issuing M accepted
\* calls, have all finished, the console and the file (when open) hold only
\* complete lines, each the line of one call, N*M of them from the workers.
AtomicityUnderConcurrency ==
  (mainpc = "final" /\ Idle(0)) =>
     /\ WholeLinesOnly(cout)
     /\ Len(WorkerLines(CoutLines)) = NumThreads * (2 * NumMessages)
     /\ Len(CoutLines) = Len(calls[0]) + NumThreads * (2 * NumMessages)
     /\ FileOpen(TheLogger) =>
          /\ WholeLinesOnly(disk[logFilename])
          /\ Len(WorkerLines(FileLines(logFilename))) = NumThreads * (2 * NumMessages)
          /\ Len(FileLines(logFilename)) = Len(calls[0]) + NumThreads * (2 * NumMessages)

\* C2 witness: all workers have finished their calls with the file open, and
\* two workers acquired the guard alternately.
AtomicityWitness ==
  /\ mainpc = "final"
  /\ FileOpen(TheLogger)
  /\ \A w \in Workers : Len(calls[w]) = 2 * NumMessages
  /\ \E k \in 1..(Len(lockOrder) - 2) :
        /\ lockOrder[k][1] \in Workers
        /\ lockOrder[k + 1][1] \in Workers \ {lockOrder[k][1]}
        /\ lockOrder[k + 2][1] = lockOrder[k][1]

\* C3 as stated: once every call has returned, a call has left its line in both
\* sinks, the console and the file, if and only if its severity is at least the
\* threshold. (Fails when the file could not be opened: an accepted call then
\* writes to the console alone.)
FilteringInBothSinks ==
  Quiescent =>
    \A id \in Made :
       Accepted(id) <=>
          /\ Count(CoutLines, LineOf(id)) >= 1
          /\ Count(FileLines(logfile[CallOf(id).obj].filename), LineOf(id)) >= 1

\* C3, amended: filtering: once every call has returned, the console holds
\* exactly the lines of the calls whose severity is at least the threshold of
\* the logger, and so does the file when it is open; a file that could not be
\* opened holds nothing; a call below the threshold leaves nothing anywhere.
FilteringCorrectness ==
  Quiescent =>
    \A i \in Instances :
      LET passed == {id \in Made : CallOf(id).obj = i /\ Accepted(id)}
          file   == FileLines(logfile[i].filename)
      IN alive[i] # "unborn" =>
           /\ Split(cout).rest = ""
           /\ Len(CoutLines) = Cardinality(passed)
           /\ \A id \in passed :
                Count(CoutLines, LineOf(id))
                  = Cardinality({j \in passed : LineOf(j) = LineOf(id)})
           /\ FileOpen(i) =>
                /\ Split(disk[logfile[i].filename]).rest = ""
                /\ Len(file) = Cardinality(passed)
                /\ \A id \in passed :
                     Count(file, LineOf(id))
                       = Cardinality({j \in passed : LineOf(j) = LineOf(id)})
           /\ ~FileOpen(i) => disk[logfile[i].filename] = <<>>

\* C3 witness: threshold WARNING, debug("x") then error("y"): one line, error's.
FilteringWitness ==
  /\ Quiescent
  /\ minimumLevel[TheLogger] = WARNING
  /\ FileOpen(TheLogger)
  /\ Len(calls[0]) = 2
  /\ calls[0][1].via = "debug" /\ calls[0][1].message = "x"
  /\ calls[0][2].via = "error" /\ calls[0][2].message = "y"
  /\ \E ts \in 0..MaxClock :
        /\ CoutLines = <<LineFormat(ts, ERROR, "y")>>
        /\ FileLines(logfile[TheLogger].filename) = <<LineFormat(ts, ERROR, "y")>>

\* The lines of the calls that acquired the guard, in order of acquisition.
LockedLines == [k \in 1..Len(lockOrder) |-> LineOf(lockOrder[k])]

\* sink holds the lines of the first calls to acquire the guard, in that order;
\* only the line of the last one to acquire it may be missing or unfinished.
InLockOrder(sink) ==
  LET got == Split(sink) IN
  /\ Len(got.lines) <= Len(lockOrder)
  /\ Len(got.lines) >= Len(lockOrder) - 1
  /\ \A k \in DOMAIN got.lines : got.lines[k] = LockedLines[k]
  /\ got.rest # "" => /\ Len(got.lines) = Len(lockOrder) - 1
                      /\ got.rest = LockedLines[Len(lockOrder)]

\* C4: ordering between racing callers: the call that acquires the guard first
\* has its whole line in the console and in the file (if open) before a later one
\* writes anything, so each sink lists the lines in order of acquisition.
OrderOfAcquisition ==
  /\ InLockOrder(cout)
  /\ \A i \in Instances : FileOpen(i) => InLockOrder(disk[logfile[i].filename])
  /\ \A k \in 1..(Len(lockOrder) - 1) : CallOf(lockOrder[k]).result = "logged"

\* C4 witness: two threads acquired the guard one after the other with different
\* lines, and both lines are in both sinks in that order.
OrderWitness ==
  /\ Len(lockOrder) = 2
  /\ lockOrder[1][1] # lockOrder[2][1]
  /\ Quiescent
  /\ FileOpen(TheLogger)
  /\ LockedLines[1] # LockedLines[2]
  /\ CoutLines = LockedLines
  /\ FileLines(logfile[TheLogger].filename) = LockedLines

\* What the console holds once the calls that acquired the guard, in that order,
\* have written: a function of their timestamps, severities and messages alone.
ExpectedConsole ==
  LET RECURSIVE out(_)
      out(k) == IF k = 0 THEN <<>> ELSE out(k - 1) \o <<LockedLines[k], endl>>
  IN out(Len(lockOrder))

\* Instance i was constructed on a file that could not be opened.
FileUnavailable(i) == alive[i] # "unborn" /\ ~CanOpen(logfile[i].filename)

\* C5: degraded mode: with a file that cannot be opened every call still
\* returns, as filtered or as logged, nothing is ever written to the file, and
\* the console holds what the same calls with the same timestamps write to it
\* when the file is open (ExpectedConsole does not depend on the file).
DegradedModeContinuity ==
  /\ Quiescent => cout = ExpectedConsole
  /\ \A i \in Instances : FileUnavailable(i) =>
       /\ ~logfile[i].is_open
       /\ disk[logfile[i].filename] = <<>>
       /\ Quiescent =>
            \A id \in Made :
               CallOf(id).result = IF Accepted(id) THEN "logged" ELSE "filtered"

\* C5 witness: the file could not be opened, two calls were accepted, and both
\* lines are on the console.
DegradedModeWitness ==
  /\ FileUnavailable(TheLogger)
  /\ Quiescent
  /\ Len(lockOrder) = 2
  /\ Len(CoutLines) = 2
  /\ cerr # <<>>

\* C6: a filtered call has no side effect and never contends: when the
\* severity is below the threshold, log can return whoever holds the guard, it
\* never waits for or takes the guard, and its step leaves the guard, the
\* clock, the sinks and the logger as they were.
FilteredCallNoEffect ==
  /\ [](\A t \in Threads :
          /\ (th[t].pc = "filter" /\ th[t].level < minimumLevel[th[t].obj])
                => ENABLED Filter(t)
          /\ th[t].pc \in InGuard \cup {"lock"}
                => th[t].level >= minimumLevel[th[t].obj])
  /\ [][\A t \in Threads :
          (th[t].pc = "filter" /\ th[t].level < minimumLevel[th[t].obj] /\ th'[t] # th[t])
             => /\ th'[t] = NoFrame
                /\ UNCHANGED <<loggerVars, logMutex, sinkVars, clock, tmbuf, lockOrder>>]_vars

\* C6 witness: a filtered call returned while another thread held the guard.
FilteredCallWitness ==
  \E id \in Made : CallOf(id).result = "filtered" /\ CallOf(id).contended

\* The severity each entry point stands for.
Corresponding(via) ==
  CASE via = "debug"    -> DEBUG
    [] via = "info"     -> INFO
    [] via = "warning"  -> WARNING
    [] via = "error"    -> ERROR
    [] via = "critical" -> CRITICAL

\* The severity of a call as its caller stated it: the argument of log, or the
\* severity the wrapper stands for.
SeverityOf(c) == IF c.via = "log" THEN c.level ELSE Corresponding(c.via)

\* C7: wrapper equivalence: a call of a wrapper ends as the call
\* log(corresponding severity, message) does: filtered under the same
\* condition, and otherwise with the same line in both sinks.
WrapperEquivalence ==
  \A id \in Made :
    LET c == CallOf(id)
        line == LineFormat(c.ts, SeverityOf(c), c.message)
    IN /\ c.result = "filtered" => SeverityOf(c) < minimumLevel[c.obj]
       /\ c.result = "logged" =>
            /\ SeverityOf(c) >= minimumLevel[c.obj]
            /\ \E k \in DOMAIN lockOrder :
                 /\ lockOrder[k] = id
                 /\ k <= Len(CoutLines) /\ CoutLines[k] = line
                 /\ FileOpen(c.obj) =>
                      /\ k <= Len(FileLines(logfile[c.obj].filename))
                      /\ FileLines(logfile[c.obj].filename)[k] = line

\* C7 witness: warning(m) and log(WARNING, m) were both logged at the same time
\* and left the same line twice in each sink.
WrapperEquivalenceWitness ==
  /\ Quiescent
  /\ FileOpen(TheLogger)
  /\ \E a \in Made, b \in Made :
       /\ CallOf(a).via = "warning" /\ CallOf(a).result = "logged"
       /\ CallOf(b).via = "log" /\ CallOf(b).level = WARNING
       /\ CallOf(b).message = CallOf(a).message
       /\ CallOf(b).ts = CallOf(a).ts
  /\ Len(CoutLines) = 2 /\ CoutLines[1] = CoutLines[2]
  /\ FileLines(logfile[TheLogger].filename) = CoutLines

\* A thread inside log that cannot take its next step.
Blocked(t) == ~Idle(t) /\ ~ENABLED LogStep(t)

\* C8: every log call runs to completion: under fair scheduling every started
\* call returns, a caller is blocked only at the guard while another thread holds
\* it, and main exits with every worker finished and joined.
EveryCallCompletes ==
  /\ \A t \in Threads : (~Idle(t)) ~> Idle(t)
  /\ [](\A t \in Threads :
          Blocked(t) => /\ th[t].pc = "lock"
                        /\ logMutex[th[t].obj] \ {t} # {})
  /\ <>[](mainpc = "exited" /\ Quiescent /\ \A w \in Workers : Finished(w))

\* C8 witness: a worker waits at the guard while another thread holds it.
EveryCallCompletesWitness ==
  \E w \in Workers : Blocked(w) /\ logMutex[th[w].obj] \ {w} # {}

\* C9: the operating state is fixed at construction: while the logger lives,
\* is_open is what the constructor's open gave and no step changes it; a logger
\* whose file did not open never writes to the file, and one whose file opened
\* has the line of every logged call in the file.
OperatingStateFixed ==
  /\ [](\A i \in Instances :
          /\ alive[i] = "alive" => logfile[i].is_open = CanOpen(logfile[i].filename)
          /\ FileUnavailable(i) => disk[logfile[i].filename] = <<>>
          /\ FileOpen(i) =>
               \A id \in Made :
                  (CallOf(id).obj = i /\ CallOf(id).result = "logged")
                     => Count(FileLines(logfile[i].filename), LineOf(id)) >= 1)
  /\ [][\A i \in Instances :
          (alive[i] = "alive" /\ alive'[i] = "alive") => logfile'[i] = logfile[i]]_vars

\* C9 witness: a live logger whose file opened has logged two calls, and the
\* file is still open.
OperatingStateWitness ==
  /\ alive[TheLogger] = "alive"
  /\ logfile[TheLogger].is_open
  /\ Quiescent
  /\ Len(FileLines(logfile[TheLogger].filename)) = 2

\* C10: join barrier: the logger is destroyed only after every worker has been
\* started, has finished and has been joined; no thread is ever inside log on a
\* logger that is not alive.
JoinBarrier ==
  /\ alive[TheLogger] = "destroyed" =>
        \A w \in Workers : wk[w].started /\ Finished(w) /\ Idle(w)
  /\ mainpc \in {"final", "return", "exited"} => \A w \in Workers : Finished(w)
  /\ \A t \in Threads : ~Idle(t) => alive[th[t].obj] = "alive"

\* C10 witness: the logger has been destroyed after every worker logged.
JoinBarrierWitness ==
  /\ alive[TheLogger] = "destroyed"
  /\ \A w \in Workers : Len(calls[w]) = 2 * NumMessages /\ calls[w][1].result = "logged"

\* s is an initial part of t.
IsPrefix(s, t) == Len(s) <= Len(t) /\ SubSeq(t, 1, Len(s)) = s

\* The lines of the calls that took the guard of logger i, in that order.
LoggedOn(i) ==
  LET ids == SelectSeq(lockOrder, LAMBDA id : CallOf(id).obj = i)
  IN [k \in DOMAIN ids |-> LineOf(ids[k])]

PreviousLines == Split(Previous).lines

\* Logger j was constructed on the path of logger i after i was destroyed, no
\* other logger was ever made, and no call on j is in progress.
Successive(i, j) ==
  /\ i \in destroyedBefore[j]
  /\ logfile[i].filename = logfile[j].filename
  /\ CanOpen(logfile[j].filename)
  /\ \A k \in Instances \ {i, j} : alive[k] = "unborn"
  /\ \A t \in Threads : th[t].obj # j

\* C11: append semantics: no step, construction included, removes or changes
\* what a file already holds (its content only grows at the end); and when a
\* logger logs lines A and is destroyed and a second logger is then constructed
\* on the same path and logs lines B, the file holds its previous content, then
\* A's lines, then B's lines.
AppendSemantics ==
  /\ [][\A p \in Paths : IsPrefix(disk[p], disk'[p])]_vars
  /\ [](\A i \in Instances, j \in Instances :
          Successive(i, j) =>
             /\ Split(disk[logfile[j].filename]).rest = ""
             /\ FileLines(logfile[j].filename)
                   = PreviousLines \o LoggedOn(i) \o LoggedOn(j))

\* C11 witness: the first logger wrote a line and was destroyed, the second was
\* then constructed on the same file and wrote a line; the file has three lines.
AppendWitness ==
  \E i \in Instances, j \in Instances :
     /\ Successive(i, j)
     /\ LoggedOn(i) # <<>>
     /\ LoggedOn(j) # <<>>
     /\ Len(FileLines(logfile[j].filename)) = Len(PreviousLines) + 2

\* The triples (timestamp, severity, message) whose line is the given text.
LineTable ==
  [x \in (0..MaxClock) \X LogLevel \X Msgs |-> LineFormat(x[1], x[2], x[3])]
Parse(line) == {x \in DOMAIN LineTable : LineTable[x] = line}

\* C12: line content: the k-th call to take the guard, once it has returned,
\* has left as k-th line of the console the text that reads back as exactly its
\* own triple: the timestamp it captured, the upper-case name of its level and
\* its message unchanged (possibly empty); and when the file is open, the k-th
\* line of the file is that same line.
LineContent ==
  \A k \in DOMAIN lockOrder :
     LET c    == CallOf(lockOrder[k])
         file == FileLines(logfile[c.obj].filename)
     IN c.result = "logged" =>
          /\ k <= Len(CoutLines)
          /\ Parse(CoutLines[k]) = {<<c.ts, c.level, c.message>>}
          /\ FileOpen(c.obj) => /\ k <= Len(file)
                                /\ file[k] = CoutLines[k]

\* C12 witness: a call with an empty message at level WARNING has returned and
\* its line, which ends at the bracket, is in the console and in the file.
LineContentWitness ==
  \E k \in DOMAIN lockOrder :
     LET c == CallOf(lockOrder[k])
     IN /\ c.result = "logged"
        /\ c.level = WARNING
        /\ c.message = ""
        /\ c.ts = 1
        /\ FileOpen(c.obj)
        /\ CoutLines[k] = "[2024-01-01 00:00:01][WARNING]"
        /\ FileLines(logfile[c.obj].filename)[k] = "[2024-01-01 00:00:01][WARNING]"

\* The place of thread t's current call in the order of acquisition.
Turn(t) == CHOOSE k \in DOMAIN lockOrder : lockOrder[k] = <<t, Len(calls[t])>>

\* The console holds the complete line of thread t's current call at its turn.
ConsoleDone(t) ==
  /\ Split(cout).rest = ""
  /\ Len(CoutLines) = Turn(t)
  /\ CoutLines[Turn(t)] = th[t].logEntry

\* The file of thread t's logger holds nothing of t's current call.
FileUntouched(t) ==
  /\ filebuf[th[t].obj] = <<>>
  /\ Split(disk[logfile[th[t].obj].filename]).rest = ""
  /\ FileOpen(th[t].obj) => Len(FileLines(logfile[th[t].obj].filename)) = Turn(t) - 1

\* The file of thread t's logger holds the complete line of t's current call.
FileDone(t) ==
  LET file == Split(disk[logfile[th[t].obj].filename])
  IN /\ filebuf[th[t].obj] = <<>>
     /\ file.rest = ""
     /\ Len(file.lines) = Turn(t)
     /\ file.lines[Turn(t)] = th[t].logEntry

\* C13: step order inside the critical section: a thread reads the clock for
\* its timestamp only while it owns the guard; it writes to the console only
\* while it owns the guard, with its line built and with nothing of the call in
\* the file yet; it writes to the file only while it owns the guard and after
\* its whole line is on the console; and it gives up the guard only when its
\* line is complete on the console and, if the file is open, in the file.
StepOrder ==
  [][\A t \in Threads :
       th'[t] # th[t] =>
         LET owns == th[t].obj \in Instances /\ t \in logMutex[th[t].obj]
         IN /\ (th[t].pc = "localtime" /\ th'[t].pc # "localtime") => owns
            /\ cout' # cout =>
                  /\ owns
                  /\ th[t].logEntry = LineOf(<<t, Len(calls[t])>>)
                  /\ FileUntouched(t)
            /\ (disk' # disk \/ filebuf' # filebuf) =>
                  /\ owns
                  /\ ConsoleDone(t)
            /\ (owns /\ t \notin logMutex'[th[t].obj]) =>
                  /\ ConsoleDone(t)
                  /\ UNCHANGED <<cout, disk, filebuf>>
                  /\ FileOpen(th[t].obj) => FileDone(t)
                  /\ ~FileOpen(th[t].obj) => disk[logfile[th[t].obj].filename] = <<>>]_vars

\* C13 witness: a thread owns the guard, its whole line is on the console, and
\* its entry is in the file's stream with the line terminator still to come.
StepOrderWitness ==
  \E t \in Threads :
     /\ th[t].pc = "file_endl"
     /\ t \in logMutex[th[t].obj]
     /\ ConsoleDone(t)
     /\ filebuf[th[t].obj] = <<th[t].logEntry>>
     /\ Len(FileLines(logfile[th[t].obj].filename)) = Turn(t) - 1

\* A log call is in progress on logger i.
InProgress(i) == \E t \in Threads : th[t].obj = i /\ ~Idle(t)

\* C14: guaranteed release of the guard: whenever no log call is in progress on
\* a logger its guard is free; a thread that is not inside log, whether its
\* last call returned at the filter or at the end, owns no guard; and a thread
\* at the filter's test or waiting for the guard does not own it.
GuardReleased ==
  \A i \in Instances :
     /\ ~InProgress(i) => logMutex[i] = {}
     /\ \A t \in Threads :
          /\ Idle(t) => t \notin logMutex[i]
          /\ th[t].pc \in {"filter", "lock"} => t \notin logMutex[i]
          /\ t \in logMutex[i] => th[t].obj = i

\* C14 witness: a thread has returned from a filtered call and from a logged
\* call on a logger without a file, another thread from a logged call, nobody
\* is inside log, and the guard is free.
GuardReleasedWitness ==
  \E t \in Threads : \E u \in Threads \ {t} :
     /\ Quiescent
     /\ {c.result : c \in {calls[t][n] : n \in DOMAIN calls[t]}} = {"filtered"}
     /\ {c.result : c \in {calls[u][n] : n \in DOMAIN calls[u]}} = {"logged"}
     /\ ~FileOpen(calls[u][1].obj)
     /\ logMutex[calls[u][1].obj] = {}

\* C15: the threshold is written only at construction: a step changes the
\* minimumLevel of a logger only by constructing it, so never while a thread is
\* inside log on it (a thread is inside log only on a constructed logger); and
\* every call made on a logger is judged against the threshold its constructor
\* was given: the calls that came back filtered are those below it, and the
\* calls past the filter are those at or above it.
ThresholdFixed ==
  /\ [][\A i \in Instances :
          minimumLevel'[i] # minimumLevel[i] =>
             /\ alive[i] = "unborn" /\ alive'[i] = "alive"
             /\ \A t \in Threads : th[t].obj # i /\ th'[t].obj # i]_vars
  /\ [](\A t \in Threads : ~Idle(t) => alive[th[t].obj] # "unborn")
  /\ [](\A id \in Made :
          /\ CallOf(id).result = "filtered" => ~Accepted(id)
          /\ CallOf(id).result = "logged" => Accepted(id)
          /\ (CallOf(id).result = "pending" /\ th[id[1]].pc # "filter") => Accepted(id))

\* C15 witness: two loggers were constructed with different thresholds, and a
\* thread made the same call on both: filtered by one, logged by the other.
ThresholdFixedWitness ==
  \E t \in Threads :
     /\ Len(calls[t]) = 2
     /\ calls[t][1].obj # calls[t][2].obj
     /\ calls[t][1].level = calls[t][2].level
     /\ calls[t][1].result = "filtered"
     /\ calls[t][2].result = "logged"
     /\ minimumLevel[calls[t][1].obj] = WARNING
     /\ minimumLevel[calls[t][2].obj] = DEBUG

\* The text of the diagnostic about a file.
Diagnostic(filename) == "Failed to open the log file : " \o filename
CerrLines == Split(cerr).lines
\* The step constructs logger i.
Constructs(i) == alive[i] = "unborn" /\ alive'[i] = "alive"

\* C16: fail-soft construction: a construction whose file cannot be opened
\* still yields a live logger and adds exactly one line, the diagnostic, to the
\* error stream; a construction whose file opens adds nothing to it; no
\* construction touches the console or a file; no other step ever writes to the
\* error stream; and the diagnostic is never in the console or in a file.  A
\* call on a logger without a file ends as any other call does: filtered or
\* logged.
FailSoft ==
  /\ [][\A i \in Instances :
          Constructs(i) =>
             /\ cout' = cout /\ disk' = disk
             /\ Split(cerr').rest = ""
             /\ CerrLines' = IF CanOpen(logfile'[i].filename)
                               THEN CerrLines
                               ELSE Append(CerrLines, Diagnostic(logfile'[i].filename))]_vars
  /\ [][(\A i \in Instances : ~Constructs(i)) => cerr' = cerr]_vars
  /\ [](/\ Len(CerrLines) = Cardinality({i \in Instances : FileUnavailable(i)})
        /\ \A p \in Paths :
             /\ Count(CoutLines, Diagnostic(p)) = 0
             /\ \A q \in Paths : Count(FileLines(q), Diagnostic(p)) = 0
        /\ \A id \in Made : CallOf(id).result \in {"pending", "filtered", "logged"}
        /\ \A id \in Made :
             (FileUnavailable(CallOf(id).obj) /\ Accepted(id) /\ Idle(id[1]))
                => CallOf(id).result = "logged")

\* C16 witness: one logger was constructed on a file that cannot be opened and
\* one on a file that can; the error stream has the one diagnostic, and a call
\* on the logger without a file has been logged since.
FailSoftWitness ==
  \E i \in Instances, j \in Instances :
     /\ FileUnavailable(i)
     /\ FileOpen(j)
     /\ CerrLines = <<Diagnostic(BadLogFilename)>>
     /\ \E id \in Made : CallOf(id).obj = i /\ CallOf(id).result = "logged"

\* C17: the guard is keyed to the logger: a thread waiting for the guard of a
\* logger can take it exactly when no thread owns the guard of that same
\* logger, whatever is going on in other loggers; and at most one thread is
\* inside the guard of any one logger.
GuardPerInstance ==
  /\ \A t \in Threads :
        th[t].pc = "lock" => (ENABLED Lock(t) <=> logMutex[th[t].obj] = {})
  /\ \A i \in Instances : Cardinality(logMutex[i]) <= 1 /\ Holder(i) = logMutex[i]

\* C17 witness: two threads are inside the guards of two different loggers at
\* the same time, each with its entry on the shared console and its line
\* terminator still to come, so the two entries run together in one line.
GuardPerInstanceWitness ==
  \E t \in Threads, u \in Threads :
     /\ th[t].pc = "cout_endl" /\ th[u].pc = "cout_endl"
     /\ th[t].obj # th[u].obj
     /\ t \in logMutex[th[t].obj] /\ u \in logMutex[th[u].obj]
     /\ Split(cout).rest = th[t].logEntry \o th[u].logEntry

\* C18: sink agreement: for a logger whose file is open, the lines in the file
\* are the first lines of the console, in the same order; the console has at
\* most one line more; and whenever the guard is free the file and the console
\* hold the same lines and no unfinished line.
SinkAgreement ==
  \A i \in Instances :
     FileOpen(i) =>
       LET file == FileLines(logfile[i].filename)
       IN /\ IsPrefix(file, CoutLines)
          /\ Len(CoutLines) <= Len(file) + 1
          /\ logMutex[i] = {} =>
                /\ file = CoutLines
                /\ Split(cout).rest = ""
                /\ Split(disk[logfile[i].filename]).rest = ""
                /\ filebuf[i] = <<>>

\* C18 witness: the file holds one line, the console holds that line and a
\* second one, and the thread that wrote it has yet to write it to the file.
SinkAgreementWitness ==
  \E i \in Instances, t \in Threads :
     /\ FileOpen(i)
     /\ logMutex[i] = {t}
     /\ th[t].pc = "file_entry"
     /\ Len(FileLines(logfile[i].filename)) = 1
     /\ Len(CoutLines) = 2
     /\ CoutLines[1] = FileLines(logfile[i].filename)[1]
     /\ CoutLines[2] # CoutLines[1]

\* The lines of thread t's calls among the lines of a sink, and the lines of
\* all its calls in the order it made them.
ThreadLines(lines, t) ==
  SelectSeq(lines, LAMBDA l : \E n \in DOMAIN calls[t] : LineOf(<<t, n>>) = l)
IssuedLines(t) == [n \in DOMAIN calls[t] |-> LineOf(<<t, n>>)]
Returned(t) == Cardinality({n \in DOMAIN calls[t] : calls[t][n].result # "pending"})

\* The last message of main.
AllCompleted == "------ ALL THREADS ARE COMPLETED ------"
\* The lines main writes before it starts the workers, and its last line.
EarlyLines ==
  {LineOf(<<0, n>>) : n \in {m \in DOMAIN calls[0] : calls[0][m].message # AllCompleted}}
FinalLines ==
  {LineOf(<<0, n>>) : n \in {m \in DOMAIN calls[0] : calls[0][m].message = AllCompleted}}
AllWorkerLines == UNION {{LineOf(<<w, n>>) : n \in DOMAIN calls[w]} : w \in Workers}

\* The lines of a sink respect the order in which each thread issued its calls
\* and the phases of the driver.
InProgramOrder(lines) ==
  LET early  == {p \in DOMAIN lines : lines[p] \in EarlyLines}
      worker == {p \in DOMAIN lines : lines[p] \in AllWorkerLines}
      final  == {p \in DOMAIN lines : lines[p] \in FinalLines}
  IN /\ \A t \in Threads :
           LET mine == ThreadLines(lines, t)
           IN IsPrefix(mine, IssuedLines(t)) /\ Len(mine) >= Returned(t)
     /\ \A p \in early, q \in worker : p < q
     /\ \A p \in worker, q \in final : p < q
     /\ \A q \in final :
           /\ q = Len(lines)
           /\ Cardinality(worker) = NumThreads * (2 * NumMessages)

StampedLines ==
  [ts \in 0..MaxClock |-> {LineFormat(ts, l, m) : l \in LogLevel, m \in Msgs}]
Stamped(line) == \E ts \in 0..MaxClock : line \in StampedLines[ts]
Stamp(line) == CHOOSE ts \in 0..MaxClock : line \in StampedLines[ts]

\* Every line carries a timestamp, and none carries an earlier one than the
\* line before it.
Monotone(lines) ==
  /\ \A k \in DOMAIN lines : Stamped(lines[k])
  /\ \A k \in 1..(Len(lines) - 1) : Stamp(lines[k]) <= Stamp(lines[k + 1])

\* C20: timestamp monotonicity: with a clock that never runs backwards, the
\* timestamps of the lines of the console, read off the lines themselves, never
\* decrease from one line to the next, and neither do those of the file,
\* whatever the interleaving of the callers.
TimestampMonotonicity ==
  /\ Monotone(CoutLines)
  /\ \A p \in Paths : Monotone(FileLines(p))

\* C20 witness: two threads have logged one line each, and the two lines of the
\* console and of the file carry the timestamps 0 and 1 in that order.
TimestampWitness ==
  /\ Quiescent
  /\ Len(CoutLines) = 2
  /\ Stamp(CoutLines[1]) = 0 /\ Stamp(CoutLines[2]) = 1
  /\ \E p \in Paths : FileLines(p) = CoutLines
  /\ lockOrder[1][1] # lockOrder[2][1]

====
